---- MODULE Spec2Model ----
(***************************************************************************)
(* Authentication fragment of the backend: register, login, /users/me,     *)
(* /admin/users and /health of main.py, over a credential store (a table   *)
(* of User rows), a password hasher and a token issuer/verifier.           *)
(* The handlers are translated from main.py; the helpers main.py imports   *)
(* (utils, crud, schemas, models) follow the design document.              *)
(***************************************************************************)
EXTENDS Integers, Sequences, FiniteSets, TLC

\* ---- bounds of the model ----
MaxTime == 2
MaxTokens == 1
NumReq == 2

\* ---- input domains ----
Usernames == {"alice", "bob"}
Passwords == {"p1", "p2"}
Roles == {"user", "admin"}
Salts == {1, 2}
Reqs == 1..NumReq

\* token time-to-live, in ticks of the clock
TTL == 2

VARIABLES accounts, pending, tokens, now, last
vars == <<accounts, pending, tokens, now, last>>

\* ---- Password Hasher (utils) ----
get_password_hash(password, salt) == [pw |-> password, salt |-> salt]

verify_password(password, digest) == digest.pw = password

\* ---- Credential Store (models.User table, crud) ----
Rows(db, username) == {i \in 1..Len(db) : db[i].username = username}

\* zero or one row: the first row with that username
get_user_by_username(db, username) ==
    IF Rows(db, username) = {} THEN <<>>
    ELSE LET i == CHOOSE k \in Rows(db, username) : \A j \in Rows(db, username) : k <= j
         IN  <<db[i]>>

\* INSERT under the unique-username constraint
commit(db, new_user) ==
    IF Rows(db, new_user.username) # {}
    THEN [ok |-> FALSE, db |-> db]
    ELSE [ok |-> TRUE, db |-> Append(db, new_user)]

\* ---- Token Issuer / Verifier (utils) ----
NoToken == [sub |-> "", exp |-> 0, sig |-> "none"]

create_access_token(sub, t) == [sub |-> sub, exp |-> t + TTL, sig |-> "server"]

decode_token(tok, t) ==
    IF tok.sig # "server" THEN "TokenInvalid"
    ELSE IF ~(t < tok.exp) THEN "TokenExpired"
    ELSE "ok"

\* ---- responses ----
Resp(status, detail, body) == [status |-> status, detail |-> detail, body |-> body]

HTTPException(status, detail) == Resp(status, detail, <<>>)

\* a handler without response_model: the returned row is serialised with all its columns
jsonable_encoder(row) ==
    [username |-> row.username, hashed_password |-> row.hashed_password, role |-> row.role]

\* schemas.UserOut: the public account view
UserOut(row) == [username |-> row.username, role |-> row.role]

\* ---- Access Control Gate (utils) ----
get_current_user(db, tok, t) ==
    IF tok = NoToken THEN [status |-> 401, detail |-> "Not authenticated", user |-> <<>>]
    ELSE IF decode_token(tok, t) # "ok"
    THEN [status |-> 401, detail |-> "Could not validate credentials", user |-> <<>>]
    ELSE IF get_user_by_username(db, tok.sub) = <<>>
    THEN [status |-> 401, detail |-> "Could not validate credentials", user |-> <<>>]
    ELSE [status |-> 200, detail |-> "", user |-> get_user_by_username(db, tok.sub)]

require_role(role, db, tok, t) ==
    LET cu == get_current_user(db, tok, t)
    IN  IF cu.status # 200 THEN cu
        ELSE IF cu.user[1].role # role
        THEN [status |-> 403, detail |-> "Forbidden", user |-> <<>>]
        ELSE cu

\* ---- handlers of main.py ----
healthcheck == Resp(200, "", <<[status |-> "ok"]>>)

register_add_BodyRole(user, salt) ==
    [username |-> user.username,
     hashed_password |-> get_password_hash(user.password, salt),
     role |-> user.role]

\* register, lines 64-66: hash the password, build the row, add it to the session
register_add(user, salt) ==
    [username |-> user.username,
     hashed_password |-> get_password_hash(user.password, salt),
     role |-> "user"]

\* variant: the error of commit is swallowed and the row returned anyway
register_commit_Swallow(db, new_user) ==
    [db |-> commit(db, new_user).db, resp |-> Resp(200, "", <<jsonable_encoder(new_user)>>)]

\* variant: an existing row of that username is overwritten (merge instead of add)
register_commit_Upsert(db, new_user) ==
    IF Rows(db, new_user.username) = {}
    THEN [db |-> Append(db, new_user), resp |-> Resp(200, "", <<jsonable_encoder(new_user)>>)]
    ELSE [db |-> [i \in 1..Len(db) |->
                    IF db[i].username = new_user.username THEN new_user ELSE db[i]],
          resp |-> HTTPException(500, "Internal Server Error")]

\* register, lines 67-71: commit, refresh, return the row; an error of commit is not caught
register_commit(db, new_user) ==
    LET c == commit(db, new_user)
    IN  IF c.ok
        THEN [db |-> c.db, resp |-> Resp(200, "", <<jsonable_encoder(new_user)>>)]
        ELSE [db |-> db, resp |-> HTTPException(500, "Internal Server Error")]

\* variant: an unknown username is reported as such
login_NotFound(db, user, t) ==
    LET db_user == get_user_by_username(db, user.username)
    IN  IF db_user = <<>> THEN HTTPException(404, "User not found")
        ELSE IF ~verify_password(user.password, db_user[1].hashed_password)
        THEN HTTPException(401, "Invalid credentials")
        ELSE Resp(200, "", <<[access_token |-> create_access_token(user.username, t),
                              token_type |-> "bearer"]>>)

\* variant: the password is not verified
login_NoVerify(db, user, t) ==
    LET db_user == get_user_by_username(db, user.username)
    IN  IF db_user = <<>>
        THEN HTTPException(401, "Invalid credentials")
        ELSE Resp(200, "", <<[access_token |-> create_access_token(user.username, t),
                              token_type |-> "bearer"]>>)

\* variant: the token is bound to the first row of the table, not to the submitted username
login_WrongSubject(db, user, t) ==
    LET db_user == get_user_by_username(db, user.username)
    IN  IF db_user = <<>> \/ ~verify_password(user.password, db_user[1].hashed_password)
        THEN HTTPException(401, "Invalid credentials")
        ELSE Resp(200, "", <<[access_token |-> create_access_token(db[1].username, t),
                              token_type |-> "bearer"]>>)

login(db, user, t) ==
    LET db_user == get_user_by_username(db, user.username)
    IN  IF db_user = <<>> \/ ~verify_password(user.password, db_user[1].hashed_password)
        THEN HTTPException(401, "Invalid credentials")
        ELSE Resp(200, "", <<[access_token |-> create_access_token(user.username, t),
                              token_type |-> "bearer"]>>)

\* variant: the handler runs although no user was resolved
read_users_me_Optional(db, tok, t) ==
    LET cu == get_current_user(db, tok, t)
    IN  IF cu.status # 200 THEN Resp(200, "", <<>>)
        ELSE Resp(200, "", <<UserOut(cu.user[1])>>)

read_users_me(db, tok, t) ==
    LET cu == get_current_user(db, tok, t)
    IN  IF cu.status # 200 THEN HTTPException(cu.status, cu.detail)
        ELSE Resp(200, "", <<UserOut(cu.user[1])>>)

\* variant: the route depends on get_current_user, not on require_role("admin")
get_all_users_AnyRole(db, tok, t) ==
    LET g == get_current_user(db, tok, t)
    IN  IF g.status # 200 THEN HTTPException(g.status, g.detail)
        ELSE Resp(200, "", [i \in 1..Len(db) |-> jsonable_encoder(db[i])])

get_all_users(db, tok, t) ==
    LET g == require_role("admin", db, tok, t)
    IN  IF g.status # 200 THEN HTTPException(g.status, g.detail)
        ELSE Resp(200, "", [i \in 1..Len(db) |-> jsonable_encoder(db[i])])

\* ---- state machine ----
Idle == [pc |-> "idle"]

Row(username, password, salt, role) ==
    [username |-> username, hashed_password |-> get_password_hash(password, salt), role |-> role]

\* the table as the process finds it at startup
InitStores == {<<>>, <<Row("alice", "p1", 1, "user")>>, <<Row("alice", "p1", 1, "admin")>>}

\* tokens the clients may hold besides those issued in this run
PriorTokens == {[sub |-> "bob", exp |-> TTL, sig |-> "server"]}
ForgedTokens == {[sub |-> u, exp |-> MaxTime + TTL, sig |-> "forged"] : u \in Usernames}
Issued == {x.tok : x \in tokens}
Presentable == Issued \cup PriorTokens \cup ForgedTokens \cup {NoToken}

Bodies == [username : Usernames, password : Passwords, role : Roles]
Credentials == [username : Usernames, password : Passwords]

\* the last request served: its input, the time it was served at, and its response
Done(op, arg, resp) ==
    [op |-> op, arg |-> arg, at |-> now,
     status |-> resp.status, detail |-> resp.detail, body |-> resp.body]

Init ==
    /\ accounts \in InitStores
    /\ pending = [r \in Reqs |-> Idle]
    /\ tokens = {}
    /\ now = 0
    /\ last = Done("startup", [none |-> TRUE], Resp(0, "", <<>>))

\* register as one request served without interleaving (lines 64-71)
Register(user, salt) ==
    /\ LET out == register_commit(accounts, register_add(user, salt))
       IN  /\ accounts' = out.db
           /\ last' = Done("register",
                           [username |-> user.username, role |-> user.role,
                            existed |-> Rows(accounts, user.username) # {}], out.resp)
    /\ UNCHANGED <<pending, tokens, now>>

\* register as two steps of request r: up to db.add, then from the awaited commit on
RegisterBegin(r, user, salt) ==
    /\ pending[r].pc = "idle"
    /\ pending' = [pending EXCEPT ![r] =
                     [pc |-> "added", new_user |-> register_add(user, salt),
                      existed |-> Rows(accounts, user.username) # {}]]
    /\ UNCHANGED <<accounts, tokens, now, last>>

RegisterCommit(r) ==
    /\ pending[r].pc = "added"
    /\ LET out == register_commit(accounts, pending[r].new_user)
       IN  /\ accounts' = out.db
           /\ last' = Done("register",
                           [username |-> pending[r].new_user.username,
                            existed |-> pending[r].existed], out.resp)
    /\ pending' = [pending EXCEPT ![r] = Idle]
    /\ UNCHANGED <<tokens, now>>

Login(user) ==
    LET resp == login(accounts, user, now)
    IN  /\ last' = Done("login", user, resp)
        /\ tokens' = IF resp.status = 200 /\ Cardinality(tokens) < MaxTokens
                     THEN tokens \cup {[tok |-> resp.body[1].access_token, user |-> user.username]}
                     ELSE tokens
        /\ UNCHANGED <<accounts, pending, now>>

ReadUsersMe(tok) ==
    /\ last' = Done("users_me", [token |-> tok], read_users_me(accounts, tok, now))
    /\ UNCHANGED <<accounts, pending, tokens, now>>

AdminUsers(tok) ==
    /\ last' = Done("admin_users", [token |-> tok], get_all_users(accounts, tok, now))
    /\ UNCHANGED <<accounts, pending, tokens, now>>

Health ==
    /\ last' = Done("health", [none |-> TRUE], healthcheck)
    /\ UNCHANGED <<accounts, pending, tokens, now>>

Tick ==
    /\ now < MaxTime
    /\ now' = now + 1
    /\ UNCHANGED <<accounts, pending, tokens, last>>

Next ==
    \/ \E user \in Bodies, salt \in Salts : Register(user, salt)
    \/ \E user \in Credentials : Login(user)
    \/ \E tok \in Presentable : ReadUsersMe(tok)
    \/ \E tok \in Presentable : AdminUsers(tok)
    \/ Health
    \/ Tick

Spec == Init /\ [][Next]_vars

\* the same machine started on a store without an admin account
InitNoAdmin == Init /\ \A i \in 1..Len(accounts) : accounts[i].role # "admin"
SpecNoAdmin == InitNoAdmin /\ [][Next]_vars

\* concurrent registrations: the steps of several register requests interleave
NextConc ==
    \/ \E r \in Reqs, user \in Bodies, salt \in Salts : RegisterBegin(r, user, salt)
    \/ \E r \in Reqs : RegisterCommit(r)

SpecConc == Init /\ [][NextConc]_vars

\* ---- properties ----
Count(db, username) == Cardinality(Rows(db, username))

OnTokenRoute == last.op \in {"users_me", "admin_users"}

\* the token verifies at time t and its subject has an account
Valid(tok, t) == tok.sig = "server" /\ t < tok.exp /\ Rows(accounts, tok.sub) # {}

\* C1: a register call for a username that already has an account fails with a
\* client error (4xx) and the store holds exactly one account of that username
C1_DuplicateRegisterIsClientError ==
    (last.op = "register" /\ last.arg.existed) =>
        /\ last.status \in 400..499
        /\ Count(accounts, last.arg.username) = 1

\* C2: no response contains a password hash, and a successful register returns
\* the public view of the account it created
C2_NoHashInResponse ==
    /\ \A i \in 1..Len(last.body) : "hashed_password" \notin DOMAIN last.body[i]
    /\ (last.op = "register" /\ last.status = 200) =>
           last.body = <<UserOut(accounts[Len(accounts)])>>

WrongPassword(c) ==
    /\ Rows(accounts, c.username) # {}
    /\ \A i \in Rows(accounts, c.username) : ~verify_password(c.password, accounts[i].hashed_password)

UnknownUser(c) == Rows(accounts, c.username) = {}

\* C3: a login with an existing username and a wrong password gets the same
\* response (401, same detail, no body) as a login with an unknown username
C3_LoginFailureIndistinguishable ==
    /\ \A c1 \in Credentials, c2 \in Credentials :
          (WrongPassword(c1) /\ UnknownUser(c2)) =>
              /\ login(accounts, c1, now) = login(accounts, c2, now)
              /\ login(accounts, c1, now).status = 401
    /\ (last.op = "login" /\ (WrongPassword(last.arg) \/ UnknownUser(last.arg))) =>
          /\ last.status = 401
          /\ last.detail = "Invalid credentials"
          /\ last.body = <<>>

C3_Witness ==
    /\ last.op = "login" /\ last.status = 401
    /\ WrongPassword(last.arg)
    /\ \E c \in Credentials : UnknownUser(c)

\* C4: login succeeds iff an account of the submitted username exists and the
\* password verifies against its hash; the response of a success carries a
\* token whose subject is the submitted username and token_type "bearer"; a
\* failing login carries no token
C4_LoginIffCredentialsMatch ==
    last.op = "login" =>
        /\ last.status = 200 <=>
               \E i \in 1..Len(accounts) :
                   /\ accounts[i].username = last.arg.username
                   /\ verify_password(last.arg.password, accounts[i].hashed_password)
        /\ last.status = 200 =>
               /\ Len(last.body) = 1
               /\ last.body[1].access_token.sub = last.arg.username
               /\ last.body[1].access_token.sig = "server"
               /\ last.body[1].token_type = "bearer"
        /\ last.status # 200 => last.body = <<>>

C4_Witness ==
    /\ last.op = "login" /\ last.status = 200
    /\ last.body[1].access_token.sub = last.arg.username

\* C5: on /admin/users with a valid token, a role other than "admin" gets 403
\* and no listing, and role "admin" gets 200 with every account of the store
C5_AdminListingRoleGated ==
    (last.op = "admin_users" /\ Valid(last.arg.token, last.at)) =>
        LET acct == get_user_by_username(accounts, last.arg.token.sub)[1]
        IN  /\ acct.role # "admin" => (last.status = 403 /\ last.body = <<>>)
            /\ acct.role = "admin" =>
                   /\ last.status = 200
                   /\ Len(last.body) = Len(accounts)
                   /\ \A i \in 1..Len(accounts) :
                          /\ last.body[i].username = accounts[i].username
                          /\ last.body[i].role = accounts[i].role

C5_Witness ==
    /\ last.op = "admin_users" /\ Valid(last.arg.token, last.at)
    /\ get_user_by_username(accounts, last.arg.token.sub)[1].role = "user"
    /\ last.status = 403

C5_WitnessAdmin ==
    /\ last.op = "admin_users" /\ Valid(last.arg.token, last.at)
    /\ last.status = 200 /\ Len(last.body) = 2

\* C6: on /users/me and /admin/users a missing or invalid token, or one whose
\* subject has no account, gets 401 and no account data; on /admin/users never 403
C6_UnauthenticatedShortCircuits ==
    (OnTokenRoute /\ ~Valid(last.arg.token, last.at)) =>
        /\ last.status = 401
        /\ last.body = <<>>

C6_Witness ==
    /\ last.op = "admin_users" /\ last.status = 401
    /\ last.arg.token.sig = "server" /\ last.at < last.arg.token.exp
    /\ Rows(accounts, last.arg.token.sub) = {}

\* C7: a token issued by a successful login is accepted iff the time is strictly
\* before its expires_at, it then resolves to the account of the username that
\* logged in, and nothing is accepted without the server's signature and before expiry
C7_TokenValidUntilExpiry ==
    OnTokenRoute =>
        /\ last.status # 401 =>
               (last.arg.token.sig = "server" /\ last.at < last.arg.token.exp)
        /\ \A x \in tokens :
               x.tok = last.arg.token =>
                   /\ last.status # 401 <=> last.at < x.tok.exp
                   /\ (last.op = "users_me" /\ last.status = 200) =>
                          (Len(last.body) = 1 /\ last.body[1].username = x.user)

C7_Witness ==
    /\ last.op = "users_me" /\ last.status = 401
    /\ \E x \in tokens : x.tok = last.arg.token /\ last.at = x.tok.exp

C7_WitnessAccepted ==
    /\ last.op = "users_me" /\ last.status = 200
    /\ \E x \in tokens : x.tok = last.arg.token /\ last.at + 1 = x.tok.exp

\* C8: started on a store without an admin, every account register creates has
\* role "user" whatever the body says, no account ever has role "admin" and
\* every /admin/users call is refused
C8_NoAdminEver ==
    /\ \A i \in 1..Len(accounts) : accounts[i].role = "user"
    /\ (last.op = "register" /\ last.status = 200) =>
           /\ accounts[Len(accounts)].username = last.arg.username
           /\ accounts[Len(accounts)].role = "user"
    /\ last.op = "admin_users" => (last.status \in {401, 403} /\ last.body = <<>>)

C8_Witness ==
    /\ last.op = "register" /\ last.status = 200
    /\ last.arg.role = "admin"
    /\ accounts[Len(accounts)].role = "user"

C8_WitnessRefused ==
    /\ last.op = "admin_users" /\ last.status = 403

\* C9: when the steps of register requests for one username interleave, a
\* request succeeds only if the username had no account when it committed, and
\* after every commit the store holds exactly one account of that username
C9_ConcurrentRegisterOneWinner ==
    [][\A r \in Reqs :
          RegisterCommit(r) =>
              LET u == pending[r].new_user.username
              IN  /\ last'.status = 200 => Rows(accounts, u) = {}
                  /\ Count(accounts', u) = 1]_vars

\* a request that began while the username was free and lost to a concurrent one
C9_Witness ==
    /\ last.op = "register" /\ last.status # 200
    /\ ~last.arg.existed
    /\ Count(accounts, last.arg.username) = 1

\* C10: only a successful register changes the store, and it appends one
\* account; no account is removed or modified; credentials that log in
\* successfully keep doing so
C10_StoreOnlyGrows ==
    [][/\ Len(accounts') >= Len(accounts)
       /\ SubSeq(accounts', 1, Len(accounts)) = accounts
       /\ accounts' # accounts =>
              /\ last'.op = "register" /\ last'.status = 200
              /\ Len(accounts') = Len(accounts) + 1
       /\ \A c \in Credentials :
              login(accounts, c, now).status = 200 => login(accounts', c, now').status = 200]_vars

\* a login repeated at a later time with the same credentials succeeded again
C10_Witness ==
    /\ last.op = "login" /\ last.status = 200
    /\ \E x \in tokens : x.user = last.arg.username /\ x.tok.exp < last.at + TTL

====
